---- MODULE Spec2Model ----
(***************************************************************************)
(* Model of the xtk term rewriter (src/src/xtk/rewriter.py): the term      *)
(* model, the pattern matcher, the skeleton instantiator, the partial      *)
(* evaluator and the rewrite driver.  SpecMatch, SpecInst, SpecEval and    *)
(* SpecPass call match, instantiate and evaluate on drawn arguments; Spec  *)
(* is the rewrite function returned by rewriter, call by call.             *)
(*                                                                         *)
(* Python values are encoded as one-field records, so that values of       *)
(* different Python types are always comparable and never equal:           *)
(*   [n |-> k]    an int/float constant of integral value k                *)
(*   [q |-> <<a, b>>]  a float constant of value a/b (b > 1, lowest terms) *)
(*   [s |-> str]  a str (a symbol, or the sentinel "failed")               *)
(*   [l |-> seq]  a list                                                   *)
(*   [op |-> id]  a callable                                               *)
(*   [err |-> e]  the outcome "exception e was raised" of a call           *)
(* Python compares numbers by value (1 == 1.0), so a constant is its       *)
(* numeric value; floats are the exact quotients (rounding plays no role   *)
(* for the inputs drawn).  A bindings dictionary is the Python list of two-element *)
(* lists [[name, value], ...] and failure is the Python string "failed",   *)
(* exactly as in the code.                                                 *)
(***************************************************************************)
EXTENDS Integers, Sequences, FiniteSets, TLC

N(k) == [n |-> k]
S(x) == [s |-> x]
L(q) == [l |-> q]
Op(x) == [op |-> x]
Err(x) == [err |-> x]

IsErr(v) == DOMAIN v = {"err"}
callable(v) == DOMAIN v = {"op"}

\* ------------------------------------------------------------------------
\* list primitives and predicates
\* ------------------------------------------------------------------------
compound(e) == DOMAIN e = {"l"}
constant(e) == DOMAIN e = {"n"} \/ DOMAIN e = {"q"}
\* mutant: numbers pass for strings
variable_mut(e) == DOMAIN e = {"s"} \/ DOMAIN e = {"n"}
variable(e) == DOMAIN e = {"s"}
atom(e) == constant(e) \/ variable(e)
null(e) == e = L(<<>>)

car(lst) ==
  IF ~compound(lst) THEN Err("TypeError")
  ELSE IF lst.l = <<>> THEN Err("ValueError")
  ELSE lst.l[1]

cdr(lst) ==
  IF ~compound(lst) THEN Err("TypeError")
  ELSE IF lst.l = <<>> THEN L(<<>>)
  ELSE L(Tail(lst.l))

\* [item] + lst : list concatenation raises TypeError when lst is no list
cons(item, lst) ==
  IF ~compound(lst) THEN Err("TypeError")
  ELSE L(<<item>> \o lst.l)

empty_dictionary == L(<<>>)
Failed == S("failed")

arbitrary_constant(pat) == compound(pat) /\ car(pat) = S("?c")
arbitrary_variable(pat) == compound(pat) /\ car(pat) = S("?v")
arbitrary_expression(pat) == compound(pat) /\ car(pat) = S("?")
skeleton_evaluation(sk) == compound(sk) /\ car(sk) = S(":")

\* car(cdr(x)), an exception raised by the inner call propagating
cadr(x) == IF IsErr(cdr(x)) THEN cdr(x) ELSE car(cdr(x))

eval_exp(sk) == cadr(sk)
pattern(rule) == car(rule)
skeleton(rule) == cadr(rule)
variable_name(pat) == cadr(pat)

\* ------------------------------------------------------------------------
\* bindings
\* ------------------------------------------------------------------------
\* the indices of the entries of dict_ whose name is name
entries_of(name, dict_) ==
  {i \in 1..Len(dict_.l) : dict_.l[i].l[1] = name}

first_of(idx) == CHOOSE i \in idx : \A j \in idx : i <= j

\* mutant: the binding is appended without looking for the name
extend_dictionary_mut(pat, dat, dict_) ==
  IF dict_ = Failed THEN Failed
  ELSE IF IsErr(variable_name(pat)) THEN variable_name(pat)
  ELSE L(Append(dict_.l, L(<<variable_name(pat), dat>>)))

extend_dictionary(pat, dat, dict_) ==
  IF dict_ = Failed THEN Failed
  ELSE LET name == variable_name(pat)
           idx == entries_of(name, dict_)
       IN IF IsErr(name) THEN name
          ELSE IF idx # {}
            THEN (IF dict_.l[first_of(idx)].l[2] = dat THEN dict_ ELSE Failed)
            ELSE L(Append(dict_.l, L(<<name, dat>>)))

\* mutant: the last entry for the name is returned
lookup_last(var, dict_) ==
  LET idx == entries_of(var, dict_)
  IN IF idx # {}
       THEN dict_.l[CHOOSE i \in idx : \A j \in idx : j <= i].l[2]
       ELSE var

lookup(var, dict_) ==
  LET idx == entries_of(var, dict_)
  IN IF idx # {} THEN dict_.l[first_of(idx)].l[2] ELSE var

\* ------------------------------------------------------------------------
\* the pattern matcher
\* ------------------------------------------------------------------------
Recurse == [recurse |-> TRUE]

\* the cases of match that return without a recursive call (rewriter.py
\* 246-270); Recurse stands for "fall through to lines 271-272"
match_base(pat, exp, dict_) ==
  IF dict_ = Failed THEN Failed
  ELSE IF null(pat) THEN (IF null(exp) THEN dict_ ELSE Failed)
  ELSE IF atom(pat) THEN (IF atom(exp) /\ pat = exp THEN dict_ ELSE Failed)
  ELSE IF arbitrary_constant(pat)
    THEN (IF constant(exp) THEN extend_dictionary(pat, exp, dict_) ELSE Failed)
  ELSE IF arbitrary_variable(pat)
    THEN (IF variable(exp) THEN extend_dictionary(pat, exp, dict_) ELSE Failed)
  ELSE IF arbitrary_expression(pat)
    THEN (IF ~callable(exp) THEN extend_dictionary(pat, exp, dict_) ELSE Failed)
  ELSE IF atom(exp) \/ callable(exp) THEN Failed
  ELSE IF null(pat) \/ null(exp) THEN Failed
  ELSE Recurse

RECURSIVE match(_, _, _)
match(pat, exp, dict_) ==
  LET base == match_base(pat, exp, dict_)
  IN IF base # Recurse THEN base
     ELSE LET submatch == match(car(pat), car(exp), dict_)
          IN IF IsErr(submatch) THEN submatch
             ELSE match(cdr(pat), cdr(exp), submatch)

\* ------------------------------------------------------------------------
\* the partial evaluator
\* ------------------------------------------------------------------------
\* the numbers of Python arithmetic, as exact quotients
num(c) == IF DOMAIN c = {"n"} THEN c.n ELSE c.q[1]
den(c) == IF DOMAIN c = {"n"} THEN 1 ELSE c.q[2]
abs(a) == IF a < 0 THEN -a ELSE a

RECURSIVE gcd(_, _)
gcd(a, b) == IF b = 0 THEN a ELSE gcd(b, a % b)

RECURSIVE ipow(_, _)
ipow(a, k) == IF k = 0 THEN 1 ELSE a * ipow(a, k - 1)

\* the number a/b (b # 0) as a constant
Rat(a, b) ==
  LET sgn == IF b < 0 THEN -1 ELSE 1
      g == gcd(abs(a), abs(b))
      p == (sgn * a) \div g
      q == (sgn * b) \div g
  IN IF q = 1 THEN N(p) ELSE [q |-> <<p, q>>]

py_add(x, y) == Rat(num(x) * den(y) + num(y) * den(x), den(x) * den(y))
\* mutant: the operands of the subtraction are exchanged
py_sub_swapped(x, y) ==
  Rat(num(y) * den(x) - num(x) * den(y), den(x) * den(y))
py_sub(x, y) == Rat(num(x) * den(y) - num(y) * den(x), den(x) * den(y))
py_neg(x) == Rat(-num(x), den(x))
py_mul(x, y) == Rat(num(x) * num(y), den(x) * den(y))
py_div(x, y) == Rat(num(x) * den(y), den(x) * num(y))

\* x ** y for an integral exponent; 0 ** negative raises ZeroDivisionError.
\* A fractional exponent yields a float that is no quotient: no input here
\* produces one.
py_pow(x, y) ==
  IF den(y) # 1 THEN [float |-> "irrational"]
  ELSE IF num(y) >= 0 THEN Rat(ipow(num(x), num(y)), ipow(den(x), num(y)))
  ELSE IF num(x) = 0 THEN Err("ZeroDivisionError")
  ELSE Rat(ipow(den(x), -num(y)), ipow(num(x), -num(y)))

\* s * k for a str or list s: k copies of s in a row, none when k <= 0
RECURSIVE repeat(_, _)
repeat(q, k) == IF k <= 0 THEN <<>> ELSE q \o repeat(q, k - 1)

RECURSIVE repeat_str(_, _)
repeat_str(x, k) == IF k <= 0 THEN "" ELSE x \o repeat_str(x, k - 1)

\* obj(*args) for the native binary operations the callers bind
\* (lambda a, b: a + b, a - b, a * b, a / b): numbers are added, and so on;
\* + concatenates two strs or two lists and * repeats a str or a list an
\* int number of times; TypeError on a wrong operand count and on every
\* other combination of operand types, ZeroDivisionError on a / 0
apply_op(obj, args) ==
  IF Len(args) # 2 THEN Err("TypeError")
  ELSE LET a == args[1]
           b == args[2]
       IN IF obj = Op("+") THEN
            (IF constant(a) /\ constant(b) THEN py_add(a, b)
             ELSE IF variable(a) /\ variable(b) THEN S(a.s \o b.s)
             ELSE IF compound(a) /\ compound(b) THEN L(a.l \o b.l)
             ELSE Err("TypeError"))
          ELSE IF obj = Op("-") THEN
            (IF constant(a) /\ constant(b) THEN py_sub(a, b)
             ELSE Err("TypeError"))
          ELSE IF obj = Op("*") THEN
            (IF constant(a) /\ constant(b) THEN py_mul(a, b)
             ELSE IF variable(a) /\ DOMAIN b = {"n"} THEN S(repeat_str(a.s, b.n))
             ELSE IF DOMAIN a = {"n"} /\ variable(b) THEN S(repeat_str(b.s, a.n))
             ELSE IF compound(a) /\ DOMAIN b = {"n"} THEN L(repeat(a.l, b.n))
             ELSE IF DOMAIN a = {"n"} /\ compound(b) THEN L(repeat(b.l, a.n))
             ELSE Err("TypeError"))
          ELSE IF obj = Op("/") THEN
            (IF constant(a) /\ constant(b)
               THEN (IF b = N(0) THEN Err("ZeroDivisionError") ELSE py_div(a, b))
               ELSE Err("TypeError"))
          ELSE Err("TypeError")

\* mutant: the operation is applied to the operands as written
RECURSIVE evaluate_raw_args(_, _)
evaluate_raw_args(form, dict_) ==
  IF null(form) THEN L(<<>>)
  ELSE IF compound(form) THEN
    LET op == car(form)
        args == cdr(form)
        simplified_args ==
          [i \in 1..Len(args.l) |-> evaluate_raw_args(args.l[i], dict_)]
        simplified_form == cons(op, L(simplified_args))
        obj == lookup(op, dict_)
    IN IF callable(obj)
         THEN LET result == apply_op(obj, args.l)
              IN IF IsErr(result) THEN simplified_form ELSE result
         ELSE simplified_form
  ELSE IF constant(form) THEN form
  ELSE IF atom(form) THEN lookup(form, dict_)
  ELSE form

\* mutant: an exception of the operation is not caught
RECURSIVE evaluate_uncaught(_, _)
evaluate_uncaught(form, dict_) ==
  IF null(form) THEN L(<<>>)
  ELSE IF compound(form) THEN
    LET op == car(form)
        args == cdr(form)
        simplified_args ==
          [i \in 1..Len(args.l) |-> evaluate_uncaught(args.l[i], dict_)]
        simplified_form == cons(op, L(simplified_args))
        obj == lookup(op, dict_)
    IN IF \E i \in 1..Len(args.l) : IsErr(simplified_args[i])
         THEN simplified_args[CHOOSE i \in 1..Len(args.l) :
                                IsErr(simplified_args[i])]
         ELSE IF callable(obj) THEN apply_op(obj, simplified_args)
         ELSE simplified_form
  ELSE IF constant(form) THEN form
  ELSE IF atom(form) THEN lookup(form, dict_)
  ELSE form

\* mutant: a symbol is returned without looking it up
RECURSIVE evaluate_no_lookup(_, _)
evaluate_no_lookup(form, dict_) ==
  IF null(form) THEN L(<<>>)
  ELSE IF compound(form) THEN
    LET op == car(form)
        args == cdr(form)
        simplified_args ==
          [i \in 1..Len(args.l) |-> evaluate_no_lookup(args.l[i], dict_)]
        simplified_form == cons(op, L(simplified_args))
        obj == lookup(op, dict_)
    IN IF callable(obj)
         THEN LET result == apply_op(obj, simplified_args)
              IN IF IsErr(result) THEN simplified_form ELSE result
         ELSE simplified_form
  ELSE form

RECURSIVE evaluate(_, _)
evaluate(form, dict_) ==
  IF null(form) THEN L(<<>>)
  ELSE IF compound(form) THEN
    LET op == car(form)
        args == cdr(form)
        simplified_args == [i \in 1..Len(args.l) |-> evaluate(args.l[i], dict_)]
        simplified_form == cons(op, L(simplified_args))
        obj == lookup(op, dict_)
    IN IF callable(obj)
         THEN LET result == apply_op(obj, simplified_args)
              IN IF IsErr(result) THEN simplified_form ELSE result
         ELSE simplified_form
  ELSE IF constant(form) THEN form
  ELSE IF atom(form) THEN lookup(form, dict_)
  ELSE form

\* ------------------------------------------------------------------------
\* the skeleton instantiator
\* ------------------------------------------------------------------------
RECURSIVE loop(_, _)
loop(sk, dict_) ==
  IF null(sk) THEN L(<<>>)
  ELSE IF atom(sk) THEN sk
  ELSE IF skeleton_evaluation(sk) THEN
    LET eval_s == eval_exp(sk)
    IN IF IsErr(eval_s) THEN eval_s ELSE evaluate(eval_s, dict_)
  ELSE IF ~compound(sk) THEN car(sk)
  ELSE LET first == loop(car(sk), dict_)
       IN IF IsErr(first) THEN first
          ELSE LET rest == loop(cdr(sk), dict_)
               IN IF IsErr(rest) THEN rest ELSE cons(first, rest)

instantiate(skeleton_, dict_) == loop(skeleton_, dict_)

\* ------------------------------------------------------------------------
\* constant folding
\* ------------------------------------------------------------------------
\* try_constant_fold: the value returned and whether log_rewrite is called
\* on the way (when a step logger is present)
try_constant_fold(exp) ==
  LET same == [result |-> exp, logged |-> FALSE]
  IN IF ~compound(exp) \/ null(exp) THEN same
     ELSE LET op == car(exp)
              args == cdr(exp).l
          IN IF ~(\A i \in 1..Len(args) : constant(args[i])) THEN same
             ELSE IF op = S("+") /\ Len(args) = 2
               THEN [result |-> py_add(args[1], args[2]), logged |-> TRUE]
             ELSE IF op = S("-") /\ Len(args) = 2
               THEN [result |-> py_sub(args[1], args[2]), logged |-> TRUE]
             ELSE IF op = S("-") /\ Len(args) = 1
               THEN [result |-> py_neg(args[1]), logged |-> TRUE]
             ELSE IF op = S("*") /\ Len(args) = 2
               THEN [result |-> py_mul(args[1], args[2]), logged |-> TRUE]
             ELSE IF op = S("/") /\ Len(args) = 2
               THEN [result |-> IF args[2] # N(0)
                                  THEN py_div(args[1], args[2]) ELSE exp,
                     logged |-> TRUE]
             ELSE IF op = S("^") /\ Len(args) = 2
               THEN (IF IsErr(py_pow(args[1], args[2])) THEN same
                     ELSE [result |-> py_pow(args[1], args[2]),
                           logged |-> TRUE])
             ELSE same

\* ------------------------------------------------------------------------
\* the rule scan of try_rules
\* ------------------------------------------------------------------------
NoRule == [rule |-> 0, dict_ |-> Failed]

\* scan(rules) up to the point where it returns exp (no rule left: NoRule),
\* raises (a rule without skeleton, a raising match: rule i and the error)
\* or has matched rule i with bindings dict_; i counts from the first rule
\* of the_rules, the scan being at rule i
\* mutant: a later matching rule is preferred
RECURSIVE scan_mut(_, _, _)
scan_mut(rules, i, exp) ==
  IF null(rules) THEN NoRule
  ELSE LET rule == car(rules)
           pat == pattern(rule)
           skel == skeleton(rule)
           dict_ == match(pat, exp, empty_dictionary)
           later == scan_mut(cdr(rules), i + 1, exp)
       IN IF IsErr(pat) THEN [rule |-> i, dict_ |-> pat]
          ELSE IF IsErr(skel) THEN [rule |-> i, dict_ |-> skel]
          ELSE IF dict_ = Failed THEN later
          ELSE IF later.rule # 0 /\ compound(later.dict_) THEN later
          ELSE [rule |-> i, dict_ |-> dict_]

\* mutant: a rule without skeleton is skipped
RECURSIVE scan_skipping(_, _, _)
scan_skipping(rules, i, exp) ==
  IF null(rules) THEN NoRule
  ELSE LET rule == car(rules)
           pat == pattern(rule)
           skel == skeleton(rule)
           dict_ == match(pat, exp, empty_dictionary)
       IN IF IsErr(pat) \/ IsErr(skel)
            THEN scan_skipping(cdr(rules), i + 1, exp)
          ELSE IF dict_ = Failed THEN scan_skipping(cdr(rules), i + 1, exp)
          ELSE [rule |-> i, dict_ |-> dict_]

RECURSIVE scan(_, _, _)
scan(rules, i, exp) ==
  IF null(rules) THEN NoRule
  ELSE LET rule == car(rules)
           pat == pattern(rule)
           skel == skeleton(rule)
           dict_ == match(pat, exp, empty_dictionary)
       IN IF IsErr(pat) THEN [rule |-> i, dict_ |-> pat]
          ELSE IF IsErr(skel) THEN [rule |-> i, dict_ |-> skel]
          ELSE IF dict_ = Failed THEN scan(cdr(rules), i + 1, exp)
          ELSE [rule |-> i, dict_ |-> dict_]

\* ------------------------------------------------------------------------
\* inputs
\* ------------------------------------------------------------------------
MaxLen == 3

SeqsUpTo(elems, k) == UNION {[1..j -> elems] : j \in 0..k}
Lists(elems) == {L(q) : q \in SeqsUpTo(elems, MaxLen)}

AnyM(x) == L(<<S("?"), S(x)>>)
CstM(x) == L(<<S("?c"), S(x)>>)
VarM(x) == L(<<S("?v"), S(x)>>)
SubM(x) == L(<<S(":"), S(x)>>)

MarkerSymbols == {S("?"), S("?c"), S("?v")}

\* patterns: literal atoms; compounds of literals and two-element markers;
\* compounds in which the marker symbols occur as ordinary elements;
\* patterns with markers below the first level
Patterns ==
  {S("f"), N(1)}
  \cup Lists({S("f"), N(1), AnyM("x"), AnyM("y"), CstM("x"), VarM("x")})
  \cup Lists({S("?"), S("?c"), S("?v"), S("x"), S("f")})
  \cup Lists({S("?"), S("f"), AnyM("x")})
  \cup {L(<<S("f"), L(<<S("f"), AnyM("x")>>), AnyM("x")>>),
        L(<<S("f"), L(<<S("f"), AnyM("x")>>), L(<<S("f"), AnyM("x")>>)>>),
        L(<<L(<<AnyM("x"), CstM("y")>>), L(<<VarM("x"), AnyM("y")>>)>>)}

Expressions ==
  {S("f"), S("a"), N(1), N(2)}
  \cup Lists({S("f"), S("a"), N(1), L(<<S("f"), S("a")>>)})
  \cup {L(<<S("f"), L(<<S("f"), N(1)>>), N(1)>>),
        L(<<S("f"), L(<<S("f"), S("a")>>), L(<<S("f"), S("a")>>)>>),
        L(<<L(<<S("a"), N(1)>>), L(<<S("a"), N(1)>>)>>),
        L(<<L(<<S("a"), N(1)>>), L(<<S("a"), N(2)>>)>>)}

\* skeletons: literal atoms; compounds of literals, the substitution symbol
\* as an ordinary element and two-element sub forms; sub forms of a compound
\* and below the first level
Skeletons ==
  {S("x"), N(1), SubM("y")}
  \cup Lists({S("f"), S("x"), S(":"), SubM("x")})
  \cup {L(<<S(":"), L(<<S("f"), S("x")>>)>>),
        L(<<S("f"), L(<<S("f"), SubM("x")>>), SubM("y")>>),
        L(<<S("f"), L(<<S("x"), S(":")>>)>>)}

\* the patterns whose bindings the skeletons are instantiated with
InstPatterns ==
  {S("f"), AnyM("x"), L(<<AnyM("x"), AnyM("y")>>), L(<<S("f"), CstM("x")>>)}

\* the operations bound by the callers of evaluate
ArithOps ==
  <<L(<<S("+"), Op("+")>>), L(<<S("-"), Op("-")>>),
    L(<<S("*"), Op("*")>>), L(<<S("/"), Op("/")>>)>>

\* bindings given to evaluate: none; values and operations; operations
\* only; a symbol as a value, also of the head f; a list as a value
EvalDicts ==
  { L(<<>>),
    L(<<L(<<S("x"), N(3)>>), L(<<S("y"), N(4)>>)>> \o ArithOps),
    L(ArithOps),
    L(<<L(<<S("x"), S("a")>>), L(<<S("f"), S("g")>>)>> \o ArithOps),
    L(<<L(<<S("x"), L(<<S("f"), N(1)>>)>>)>> \o ArithOps) }

EvalHeads ==
  {S("+"), S("-"), S("*"), S("/"), S("f"), S("x"),
   L(<<S("+"), N(1), N(2)>>)}

\* the compound operands of the nested forms; no division among them (its
\* result is a float, which * does not take as a number of repetitions)
InnerForms ==
  {L(<<h, a, b>>) : h \in {S("+"), S("-"), S("*"), S("f")},
                    a \in {N(0), N(2), S("x"), S("y")},
                    b \in {N(0), N(2), S("x"), S("y")}}

\* forms given to evaluate: atoms and the empty list; a head with up to
\* MaxLen - 1 atomic operands; a head with an atomic and a compound operand
EvalForms ==
  {N(0), N(1), N(2), S("x"), S("y"), S("z"), S("+"), L(<<>>)}
  \cup {cons(h, L(q)) : h \in EvalHeads,
                        q \in SeqsUpTo({N(0), N(2), S("x"), S("z")}, MaxLen - 1)}
  \cup {L(<<h, a, g>>) : h \in {S("+"), S("*"), S("f")},
                         a \in {N(2), S("x")}, g \in InnerForms}
  \cup {L(<<h, g, a>>) : h \in {S("+"), S("*"), S("f")},
                         a \in {N(2), S("x")}, g \in InnerForms}

\* a rule [pattern, skeleton]
Rule(pat, skel) == L(<<pat, skel>>)

Plus(a, b) == L(<<S("+"), a, b>>)

\* rule sets: none; x+0 -> x; the two orders of a general and a specific
\* rule; the commutativity cycle; x+x -> 2*x; a two-step chain f -> g -> x;
\* literal atoms as patterns; a rule without skeleton
NoRules == L(<<>>)

PlusZero == Rule(Plus(AnyM("x"), N(0)), SubM("x"))
PlusAny == Rule(Plus(AnyM("x"), AnyM("y")), L(<<S("add"), SubM("x"), SubM("y")>>))

GeneralFirst == L(<<PlusAny, PlusZero>>)
SpecificFirst == L(<<PlusZero, PlusAny>>)

CyclicRules ==
  L(<<Rule(Plus(AnyM("a"), AnyM("b")), Plus(SubM("b"), SubM("a"))),
      Rule(Plus(AnyM("b"), AnyM("a")), Plus(SubM("a"), SubM("b")))>>)

RuleSets ==
  { NoRules,
    L(<<PlusZero>>),
    GeneralFirst,
    SpecificFirst,
    CyclicRules,
    L(<<Rule(Plus(AnyM("x"), AnyM("x")), L(<<S("*"), N(2), SubM("x")>>))>>),
    L(<<Rule(L(<<S("f"), AnyM("x")>>), L(<<S("g"), SubM("x")>>)),
        Rule(L(<<S("g"), AnyM("x")>>), SubM("x"))>>),
    L(<<Rule(N(3), S("three")), Rule(S("x"), N(1)),
        Rule(Plus(N(1), N(0)), Plus(N(1), N(2)))>>),
    L(<<PlusZero, L(<<L(<<S("f"), AnyM("x")>>)>>)>>) }

Inputs ==
  { S("x"), N(5), L(<<>>),
    Plus(S("x"), N(0)),
    Plus(S("a"), S("a")),
    Plus(S("x"), S("y")),
    Plus(N(2), N(3)),
    Plus(N(1), N(0)),
    Plus(S("x"), N(2)),
    L(<<S("*"), N(2), Plus(N(1), N(2))>>),
    Plus(Plus(S("x"), N(0)), N(0)),
    L(<<S("f"), L(<<S("f"), S("a")>>)>>),
    L(<<S("h"), Plus(S("x"), N(0))>>),
    L(<<S("/"), N(1), N(0)>>),
    L(<<S("/"), N(4), N(2)>>),
    L(<<S("-"), N(3)>>),
    L(<<S("f"), S("x")>>) }

\* how deep the operator nodes of the arithmetic inputs nest
MaxDepth == 2

\* expressions of integer constants under binary +, -, * and unary -, the
\* operator nodes nesting up to k deep, in the first or in the last operand
RECURSIVE Arith(_)
Arith(k) ==
  IF k = 0 THEN {N(2), N(3)}
  ELSE LET sub == Arith(k - 1)
       IN sub
          \cup {L(<<op, a, N(2)>>) : op \in {S("+"), S("-"), S("*")}, a \in sub}
          \cup {L(<<op, N(3), b>>) : op \in {S("+"), S("-"), S("*")}, b \in sub}
          \cup {L(<<S("-"), a>>) : a \in sub}

\* with both operands compound as well
ArithInputs ==
  Arith(MaxDepth)
  \cup {L(<<op, Plus(N(2), N(3)), L(<<S("-"), N(3), N(2)>>)>>) :
          op \in {S("+"), S("-"), S("*")}}

\* the interpreter's recursion limit, counted in nested calls of
\* simplify_exp and simplify_parts
RecursionLimit == 10

\* how often the caller applies the rewrite function in a row
MaxCalls == 2

max_iterations == 1000

\* ------------------------------------------------------------------------
\* state
\* ------------------------------------------------------------------------
VARIABLES
  m_pat,    \* match: the pattern argument
  m_exp,    \* match: the expression argument
  m_dict,   \* the bindings value threaded through / returned by match
  m_skel,   \* instantiate: the skeleton argument
  m_inst,   \* the value returned by instantiate
  m_pc,     \* "start", "matched", "instantiated", "pass", "idle"
  p_todo,   \* the pending (pattern, expression) calls of a matching pass
  e_form,   \* evaluate: the form argument
  e_dict,   \* evaluate: the bindings argument
  e_val,    \* the value returned by evaluate
  the_rules,        \* rewriter: the rule list
  constant_folding, \* rewriter: the constant_folding flag
  step_logger,      \* rewriter: the StepLogger (steps, step_count) or None
  stack,    \* the active calls of simplify_exp / simplify_parts, innermost last
  ret,      \* the value just returned by a call, until the caller takes it
  status,   \* "idle", "running", "returned", "raised" ("off": no rewriter)
  input,    \* the argument of the current call of the rewrite function
  calls,    \* the completed calls of the rewrite function: <<input, result>>
  max_steps,        \* Expression.simplify: the max_steps argument
  total_iterations, \* the loop iterations of all invocations of the call
  steps_done,       \* the rule applications and constant folds of the call
  history,          \* XTKRepl: the Expression objects entered and rewritten
  repl_rules        \* XTKRepl: the rule pairs loaded (self.rules)

e_vars == <<e_form, e_dict, e_val>>
m_vars == <<m_pat, m_exp, m_dict, m_skel, m_inst, m_pc, p_todo, e_form, e_dict,
            e_val>>
c_vars == <<max_steps, total_iterations, steps_done>>
d_vars == <<the_rules, constant_folding, step_logger, stack, ret, status,
            input, calls, max_steps, total_iterations, steps_done>>
r_vars == <<history, repl_rules>>
vars == <<m_pat, m_exp, m_dict, m_skel, m_inst, m_pc, p_todo, e_form, e_dict,
          e_val, the_rules, constant_folding, step_logger, stack, ret, status,
          input, calls, max_steps, total_iterations, steps_done, history,
          repl_rules>>

Unset == [unset |-> TRUE]
NoLogger == [none |-> TRUE]

\* no rewriter exists
DriverOff ==
  /\ the_rules = L(<<>>)
  /\ constant_folding = FALSE
  /\ step_logger = NoLogger
  /\ stack = <<>>
  /\ ret = Unset
  /\ status = "off"
  /\ input = Unset
  /\ calls = <<>>
  /\ max_steps = Unset
  /\ total_iterations = 0
  /\ steps_done = 0

\* no REPL runs
ReplOff ==
  /\ history = <<>>
  /\ repl_rules = L(<<>>)

\* no call of evaluate from outside the rewriter
EvaluatorOff ==
  /\ e_form = Unset
  /\ e_dict = Unset
  /\ e_val = Unset

\* no call of match, instantiate or evaluate from outside the rewriter
MatcherOff ==
  /\ EvaluatorOff
  /\ m_pat = Unset
  /\ m_exp = Unset
  /\ m_dict = Unset
  /\ m_skel = Unset
  /\ m_inst = Unset
  /\ m_pc = "idle"
  /\ p_todo = <<>>

\* is this pattern a two-element compound headed by a marker symbol
is_marker(pat) ==
  compound(pat) /\ Len(pat.l) = 2 /\ pat.l[1] \in MarkerSymbols

\* the pattern with every marker any(name)/const(name)/var(name)
\* rewritten to sub(name)
RECURSIVE to_skeleton(_)
to_skeleton(pat) ==
  IF is_marker(pat) THEN L(<<S(":"), pat.l[2]>>)
  ELSE IF compound(pat)
    THEN L([i \in 1..Len(pat.l) |-> to_skeleton(pat.l[i])])
    ELSE pat

\* ------------------------------------------------------------------------
\* match and instantiate as calls
\* ------------------------------------------------------------------------
InitMatch ==
  /\ m_pat \in Patterns
  /\ m_exp \in Expressions
  /\ m_dict = empty_dictionary
  /\ m_skel = to_skeleton(m_pat)
  /\ m_inst = Unset
  /\ m_pc = "start"
  /\ p_todo = <<>>
  /\ EvaluatorOff
  /\ DriverOff
  /\ ReplOff

\* dict_ = match(pat, exp, empty_dictionary())
DoMatch ==
  /\ m_pc = "start"
  /\ m_dict' = match(m_pat, m_exp, empty_dictionary)
  /\ m_pc' = "matched"
  /\ UNCHANGED <<m_pat, m_exp, m_skel, m_inst, p_todo, e_vars, d_vars, r_vars>>

\* skel_inst = instantiate(skel, dict_), after a successful match
DoInstantiate ==
  /\ m_pc = "matched"
  /\ m_dict # Failed
  /\ ~IsErr(m_dict)
  /\ m_inst' = instantiate(m_skel, m_dict)
  /\ m_pc' = "instantiated"
  /\ UNCHANGED <<m_pat, m_exp, m_dict, m_skel, p_todo, e_vars, d_vars, r_vars>>

NextMatch == DoMatch \/ DoInstantiate

SpecMatch == InitMatch /\ [][NextMatch]_vars

\* ------------------------------------------------------------------------
\* instantiate called with any skeleton and the bindings of a match
\* ------------------------------------------------------------------------
InitInst ==
  /\ m_pat \in InstPatterns
  /\ m_exp \in Expressions
  /\ m_dict = empty_dictionary
  /\ m_skel = Unset
  /\ m_inst = Unset
  /\ m_pc = "start"
  /\ p_todo = <<>>
  /\ EvaluatorOff
  /\ DriverOff
  /\ ReplOff

\* skel_inst = instantiate(skel, dict_) for a skeleton of the caller's
CallInstantiate ==
  /\ m_pc = "matched"
  /\ m_skel = Unset
  /\ compound(m_dict)
  /\ \E sk \in Skeletons :
       /\ m_skel' = sk
       /\ m_inst' = instantiate(sk, m_dict)
  /\ m_pc' = "instantiated"
  /\ UNCHANGED <<m_pat, m_exp, m_dict, p_todo, e_vars, d_vars, r_vars>>

NextInst == DoMatch \/ CallInstantiate

SpecInst == InitInst /\ [][NextInst]_vars

\* ------------------------------------------------------------------------
\* evaluate as a call
\* ------------------------------------------------------------------------
InitEval ==
  /\ e_form \in EvalForms
  /\ e_dict \in EvalDicts
  /\ e_val = Unset
  /\ m_pat = Unset
  /\ m_exp = Unset
  /\ m_dict = Unset
  /\ m_skel = Unset
  /\ m_inst = Unset
  /\ m_pc = "eval"
  /\ p_todo = <<>>
  /\ DriverOff
  /\ ReplOff

\* evaluate(form, dict_)
DoEvaluate ==
  /\ m_pc = "eval"
  /\ e_val' = evaluate(e_form, e_dict)
  /\ m_pc' = "evaluated"
  /\ UNCHANGED <<e_form, e_dict, m_pat, m_exp, m_dict, m_skel, m_inst, p_todo,
                 d_vars, r_vars>>

NextEval == DoEvaluate

SpecEval == InitEval /\ [][NextEval]_vars

\* ------------------------------------------------------------------------
\* one matching pass, call by call: p_todo holds the calls of match still
\* to be made (the next one first), m_dict the bindings value handed
\* from one call to the next
\* ------------------------------------------------------------------------
InitPass ==
  /\ m_pat \in Patterns
  /\ m_exp \in Expressions
  /\ m_dict = empty_dictionary
  /\ m_skel = Unset
  /\ m_inst = Unset
  /\ m_pc = "pass"
  /\ p_todo = << <<m_pat, m_exp>> >>
  /\ EvaluatorOff
  /\ DriverOff
  /\ ReplOff

MatchStep ==
  /\ m_pc = "pass"
  /\ p_todo # <<>>
  /\ LET pat == p_todo[1][1]
         exp == p_todo[1][2]
         base == match_base(pat, exp, m_dict)
     IN IF base = Recurse
          THEN /\ p_todo' = << <<car(pat), car(exp)>>, <<cdr(pat), cdr(exp)>> >>
                              \o Tail(p_todo)
               /\ m_dict' = m_dict
          ELSE /\ p_todo' = IF IsErr(base) THEN <<>> ELSE Tail(p_todo)
               /\ m_dict' = base
  /\ UNCHANGED <<m_pat, m_exp, m_skel, m_inst, m_pc, e_vars, d_vars, r_vars>>

NextPass == MatchStep

SpecPass == InitPass /\ [][NextPass]_vars

\* the pass, once all its calls are made, has computed match
PassComputesMatch ==
  (m_pc = "pass" /\ p_todo = <<>>) =>
     m_dict = match(m_pat, m_exp, empty_dictionary)

\* ------------------------------------------------------------------------
\* the step logger
\* ------------------------------------------------------------------------
\* "bindings or {}": an empty list is logged as an empty dict
EmptyDict == [dict |-> <<>>]

\* session_id is the time of creation; the model numbers the sessions
NewLogger == [steps |-> <<>>, step_count |-> 0, session_id |-> 0]

\* an observer given in place of a StepLogger whose notifications of one
\* kind ("initial", "rewrite" or "final") raise
FailingObserver(kind) == [steps |-> <<>>, step_count |-> 0, fails |-> kind]

ObserverError == Err("ObserverError")

\* the notification of this kind raises
notification_fails(lg, kind) ==
  /\ "fails" \in DOMAIN lg
  /\ lg.fails = kind

log_initial(lg, expression) ==
  [lg EXCEPT
     !.steps = Append(lg.steps, [step |-> lg.step_count, type |-> "initial",
                                 expression |-> expression]),
     !.step_count = lg.step_count + 1]

log_rewrite(lg, before, after, rule_pattern, rule_skeleton, bindings) ==
  [lg EXCEPT
     !.steps = Append(lg.steps,
       [step |-> lg.step_count, type |-> "rewrite",
        before |-> before, after |-> after,
        pattern |-> rule_pattern, skeleton |-> rule_skeleton,
        bindings |-> IF bindings = L(<<>>) THEN EmptyDict ELSE bindings]),
     !.step_count = lg.step_count + 1]

log_final(lg, expression, iterations) ==
  [lg EXCEPT
     !.steps = Append(lg.steps, [step |-> lg.step_count, type |-> "final",
                                 expression |-> expression,
                                 iterations |-> iterations]),
     !.step_count = lg.step_count + 1]

log_simplification(lg, before, after, operation) ==
  [lg EXCEPT
     !.steps = Append(lg.steps,
       [step |-> lg.step_count, type |-> "simplification",
        before |-> before, after |-> after, operation |-> operation]),
     !.step_count = lg.step_count + 1]

\* mutant: the steps are dropped and the counter runs on
clear_keeps_count(lg) ==
  [lg EXCEPT !.steps = <<>>, !.session_id = lg.session_id + 1]

clear(lg) ==
  [lg EXCEPT !.steps = <<>>, !.step_count = 0,
             !.session_id = lg.session_id + 1]

\* try_constant_fold(exp) with the step logger lg: the value returned and
\* the logger afterwards; an exception of log_rewrite is caught by the
\* "except:" of the fold, which then returns exp
fold_with_logger(exp, lg) ==
  LET folded == try_constant_fold(exp)
  IN IF ~folded.logged \/ lg = NoLogger
       THEN [result |-> folded.result, logger |-> lg]
     ELSE IF notification_fails(lg, "rewrite")
       THEN [result |-> exp, logger |-> lg]
     ELSE [result |-> folded.result,
           logger |-> log_rewrite(lg, exp, folded.result,
                                  [fold |-> car(exp)], folded.result, L(<<>>))]

\* ------------------------------------------------------------------------
\* a StepLogger used on its own
\* ------------------------------------------------------------------------
\* how many steps are logged in a session, how many sessions are begun
MaxSteps == 3
MaxSessions == 2

\* the expressions logged
LogExprs == {S("x"), L(<<S("+"), S("x"), N(0)>>)}

InitLogger ==
  /\ step_logger = NewLogger
  /\ the_rules = L(<<>>)
  /\ constant_folding = FALSE
  /\ stack = <<>>
  /\ ret = Unset
  /\ status = "off"
  /\ input = Unset
  /\ calls = <<>>
  /\ max_steps = Unset
  /\ total_iterations = 0
  /\ steps_done = 0
  /\ MatcherOff
  /\ ReplOff

LoggerUnchanged ==
  UNCHANGED <<the_rules, constant_folding, stack, ret, status, input, calls,
              c_vars, m_vars, r_vars>>

LogInitial ==
  /\ Len(step_logger.steps) < MaxSteps
  /\ \E e \in LogExprs : step_logger' = log_initial(step_logger, e)
  /\ LoggerUnchanged

LogRewrite ==
  /\ Len(step_logger.steps) < MaxSteps
  /\ \E before \in LogExprs,
        bindings \in {L(<<>>), L(<<L(<<S("x"), S("x")>>)>>)} :
       step_logger' = log_rewrite(step_logger, before, S("x"),
                                  L(<<S("+"), L(<<S("?"), S("x")>>), N(0)>>),
                                  L(<<S(":"), S("x")>>), bindings)
  /\ LoggerUnchanged

LogSimplification ==
  /\ Len(step_logger.steps) < MaxSteps
  /\ \E before \in LogExprs :
       step_logger' = log_simplification(step_logger, before, S("x"),
                                         "algebraic")
  /\ LoggerUnchanged

LogFinal ==
  /\ Len(step_logger.steps) < MaxSteps
  /\ \E e \in LogExprs, iterations \in 1..2 :
       step_logger' = log_final(step_logger, e, iterations)
  /\ LoggerUnchanged

Clear ==
  /\ step_logger.session_id < MaxSessions
  /\ step_logger' = clear(step_logger)
  /\ LoggerUnchanged

NextLogger ==
  \/ LogInitial
  \/ LogRewrite
  \/ LogSimplification
  \/ LogFinal
  \/ Clear

SpecLogger == InitLogger /\ [][NextLogger]_vars

\* ------------------------------------------------------------------------
\* the rewrite driver
\* ------------------------------------------------------------------------
\* a call of simplify_exp(exp, is_root) at its first statement
exp_frame(exp, is_root) ==
  [fn |-> "simplify_exp", exp |-> exp, old_exp |-> Unset, iterations |-> 0,
   is_root |-> is_root, pc |-> "head", rule |-> 0, first |-> Unset]

\* a call of simplify_parts(exp) at its first statement
parts_frame(exp) ==
  [fn |-> "simplify_parts", exp |-> exp, old_exp |-> Unset, iterations |-> 0,
   is_root |-> FALSE, pc |-> "start", rule |-> 0, first |-> Unset]

Top == stack[Len(stack)]
SetTop(f) == [stack EXCEPT ![Len(stack)] = f]
Pop == SubSeq(stack, 1, Len(stack) - 1)

At(fn, pc) ==
  /\ status = "running"
  /\ stack # <<>>
  /\ Top.fn = fn
  /\ Top.pc = pc

\* an exception leaves every active call: none of them catches it
Raise(e) ==
  /\ stack' = <<>>
  /\ ret' = e
  /\ status' = "raised"
  /\ calls' = Append(calls, <<input, e>>)

\* the top call, left at caller_pc, calls frame
Call(caller_pc, frame) ==
  IF Len(stack) >= RecursionLimit
    THEN Raise(Err("RecursionError"))
    ELSE /\ stack' = Append(SetTop([Top EXCEPT !.pc = caller_pc]), frame)
         /\ ret' = Unset
         /\ UNCHANGED <<status, calls>>

\* mutant: every invocation of simplify_exp notifies the final state
ReturnExp_every ==
  /\ step_logger' =
       IF step_logger # NoLogger
         THEN log_final(step_logger, Top.exp, Top.iterations)
         ELSE step_logger
  /\ stack' = Pop
  /\ ret' = Top.exp
  /\ IF Len(stack) = 1
       THEN /\ status' = "returned"
            /\ calls' = Append(calls, <<input, Top.exp>>)
       ELSE UNCHANGED <<status, calls>>

\* simplify_exp leaves its loop: log_final at the root, return exp
ReturnExp ==
  IF Top.is_root /\ notification_fails(step_logger, "final")
    THEN Raise(ObserverError) /\ UNCHANGED step_logger
    ELSE /\ step_logger' =
              IF Top.is_root /\ step_logger # NoLogger
                THEN log_final(step_logger, Top.exp, Top.iterations)
                ELSE step_logger
         /\ stack' = Pop
         /\ ret' = Top.exp
         /\ IF Len(stack) = 1
              THEN /\ status' = "returned"
                   /\ calls' = Append(calls, <<input, Top.exp>>)
              ELSE UNCHANGED <<status, calls>>

Init ==
  /\ the_rules \in RuleSets
  /\ constant_folding \in BOOLEAN
  /\ step_logger \in {NoLogger, NewLogger}
                      \cup {FailingObserver(kind) :
                              kind \in {"initial", "rewrite", "final"}}
  /\ stack = <<>>
  /\ ret = Unset
  /\ status = "idle"
  /\ input = Unset
  /\ calls = <<>>
  /\ max_steps = Unset
  /\ total_iterations = 0
  /\ steps_done = 0
  /\ MatcherOff
  /\ ReplOff

\* wrapper(exp): simplify_exp(exp, is_root=True), up to the loop; the first
\* call takes an input, a later one the expression the call before returned
Wrapper ==
  /\ \/ status = "idle"
     \/ status = "returned" /\ Len(calls) < MaxCalls
  /\ \E e \in IF calls # <<>> THEN {calls[Len(calls)][2]}
             ELSE IF /\ the_rules = NoRules
                     /\ constant_folding
                     /\ step_logger \in {NoLogger, NewLogger}
               THEN Inputs \cup ArithInputs
               ELSE Inputs :
       /\ input' = e
       /\ IF notification_fails(step_logger, "initial")
            THEN /\ stack' = <<>>
                 /\ ret' = ObserverError
                 /\ status' = "raised"
                 /\ calls' = Append(calls, <<e, ObserverError>>)
                 /\ UNCHANGED step_logger
            ELSE /\ stack' = <<exp_frame(e, TRUE)>>
                 /\ step_logger' =
                      IF step_logger # NoLogger
                        THEN log_initial(step_logger, e) ELSE step_logger
                 /\ ret' = Unset
                 /\ status' = "running"
                 /\ UNCHANGED calls
  /\ total_iterations' = 0
  /\ steps_done' = 0
  /\ UNCHANGED <<the_rules, constant_folding, max_steps, m_vars, r_vars>>

\* mutant: an iteration begins with the parts of exp
LoopHead_parts_first ==
  /\ At("simplify_exp", "head")
  /\ ret = Unset
  /\ IF Top.iterations < max_iterations
       THEN /\ stack' = SetTop([Top EXCEPT !.iterations = @ + 1,
                                           !.old_exp = Top.exp,
                                           !.pc = "parts"])
            /\ total_iterations' = total_iterations + 1
            /\ UNCHANGED <<ret, status, calls, step_logger>>
       ELSE ReturnExp /\ UNCHANGED total_iterations
  /\ UNCHANGED <<the_rules, constant_folding, input, max_steps, steps_done,
                 m_vars, r_vars>>

\* while iterations < max_iterations: iterations += 1; old_exp = deepcopy(exp)
LoopHead ==
  /\ At("simplify_exp", "head")
  /\ ret = Unset
  /\ IF Top.iterations < max_iterations
       THEN /\ stack' = SetTop([Top EXCEPT !.iterations = @ + 1,
                                           !.old_exp = Top.exp,
                                           !.pc = "try_rules"])
            /\ total_iterations' = total_iterations + 1
            /\ UNCHANGED <<ret, status, calls, step_logger>>
       ELSE ReturnExp /\ UNCHANGED total_iterations
  /\ UNCHANGED <<the_rules, constant_folding, input, max_steps, steps_done,
                 m_vars, r_vars>>

\* try_rules(exp): the scan stops at a matching rule; instantiate, log,
\* simplify_exp(skel_inst)
TryRulesApply ==
  /\ At("simplify_exp", "try_rules")
  /\ LET found == scan(the_rules, 1, Top.exp)
         skel == skeleton(the_rules.l[found.rule])
         skel_inst == instantiate(skel, found.dict_)
     IN /\ found.rule # 0
        /\ ~IsErr(found.dict_)
        /\ IF IsErr(skel_inst)
             THEN Raise(skel_inst) /\ UNCHANGED step_logger
             ELSE IF notification_fails(step_logger, "rewrite")
             THEN Raise(ObserverError) /\ UNCHANGED step_logger
             ELSE /\ step_logger' =
                       IF step_logger # NoLogger
                         THEN log_rewrite(step_logger, Top.exp, skel_inst,
                                 pattern(the_rules.l[found.rule]), skel,
                                 found.dict_)
                         ELSE step_logger
                  /\ IF Len(stack) >= RecursionLimit
                       THEN Raise(Err("RecursionError"))
                       ELSE /\ stack' = Append(
                                 SetTop([Top EXCEPT !.pc = "rules_wait",
                                                    !.rule = found.rule]),
                                 exp_frame(skel_inst, FALSE))
                            /\ ret' = Unset
                            /\ UNCHANGED <<status, calls>>
        /\ steps_done' = IF IsErr(skel_inst) THEN steps_done
                                             ELSE steps_done + 1
  /\ UNCHANGED <<the_rules, constant_folding, input, max_steps,
                 total_iterations, m_vars, r_vars>>

\* try_rules(exp): the scan raises at a rule (no skeleton, or match raises)
TryRulesRaise ==
  /\ At("simplify_exp", "try_rules")
  /\ LET found == scan(the_rules, 1, Top.exp)
     IN /\ found.rule # 0
        /\ IsErr(found.dict_)
        /\ Raise(found.dict_)
  /\ UNCHANGED <<the_rules, constant_folding, step_logger, input, m_vars,
                 r_vars, c_vars>>

\* try_rules(exp): no rule matches, the scan returns exp itself
TryRulesNone ==
  /\ At("simplify_exp", "try_rules")
  /\ scan(the_rules, 1, Top.exp) = NoRule
  /\ stack' = SetTop([Top EXCEPT !.pc = "fold"])
  /\ UNCHANGED <<the_rules, constant_folding, step_logger, ret, status,
                 input, calls, m_vars, r_vars, c_vars>>

\* result = try_rules(exp) has returned: if result != exp, continue
RulesReturn ==
  /\ At("simplify_exp", "rules_wait")
  /\ ret # Unset
  /\ stack' = SetTop(IF ret # Top.exp
                       THEN [Top EXCEPT !.exp = ret, !.pc = "head"]
                       ELSE [Top EXCEPT !.pc = "fold"])
  /\ ret' = Unset
  /\ UNCHANGED <<the_rules, constant_folding, step_logger, status, input,
                 calls, m_vars, r_vars, c_vars>>

\* constant folding is enabled and changes exp: continue
ConstantFold ==
  /\ At("simplify_exp", "fold")
  /\ constant_folding
  /\ LET folded == fold_with_logger(Top.exp, step_logger)
     IN /\ folded.result # Top.exp
        /\ step_logger' = folded.logger
        /\ stack' = SetTop([Top EXCEPT !.exp = folded.result, !.pc = "head"])
  /\ steps_done' = steps_done + 1
  /\ UNCHANGED <<the_rules, constant_folding, ret, status, input, calls,
                 max_steps, total_iterations, m_vars, r_vars>>

\* constant folding is disabled or leaves exp as it is
NoConstantFold ==
  /\ At("simplify_exp", "fold")
  /\ LET folded == fold_with_logger(Top.exp, step_logger)
     IN IF constant_folding
          THEN /\ folded.result = Top.exp
               /\ step_logger' = folded.logger
          ELSE UNCHANGED step_logger
  /\ stack' = SetTop([Top EXCEPT !.pc = "parts"])
  /\ UNCHANGED <<the_rules, constant_folding, ret, status, input, calls,
                 m_vars, r_vars, c_vars>>

\* if compound(exp): result = simplify_parts(exp)
CallSimplifyParts ==
  /\ At("simplify_exp", "parts")
  /\ IF compound(Top.exp)
       THEN Call("parts_wait", parts_frame(Top.exp))
       ELSE /\ stack' = SetTop([Top EXCEPT !.pc = "check"])
            /\ UNCHANGED <<ret, status, calls>>
  /\ UNCHANGED <<the_rules, constant_folding, step_logger, input, m_vars,
                 r_vars, c_vars>>

\* mutant: the simplified parts are returned without another iteration
PartsReturn_mut ==
  /\ At("simplify_exp", "parts_wait")
  /\ ret # Unset
  /\ stack' = SetTop([Top EXCEPT !.exp = ret, !.old_exp = ret, !.pc = "check"])
  /\ ret' = Unset
  /\ UNCHANGED <<the_rules, constant_folding, step_logger, status, input,
                 calls, m_vars, r_vars, c_vars>>

\* result = simplify_parts(exp) has returned: if result != exp, continue
PartsReturn ==
  /\ At("simplify_exp", "parts_wait")
  /\ ret # Unset
  /\ stack' = SetTop(IF ret # Top.exp
                       THEN [Top EXCEPT !.exp = ret, !.pc = "head"]
                       ELSE [Top EXCEPT !.pc = "check"])
  /\ ret' = Unset
  /\ UNCHANGED <<the_rules, constant_folding, step_logger, status, input,
                 calls, m_vars, r_vars, c_vars>>

\* mutant: the loop does not break when nothing changed
Converged_never ==
  /\ At("simplify_exp", "check")
  /\ stack' = SetTop([Top EXCEPT !.pc = "head"])
  /\ UNCHANGED <<ret, status, calls, step_logger>>
  /\ UNCHANGED <<the_rules, constant_folding, input, m_vars, r_vars, c_vars>>

\* if exp == old_exp: break, and return exp; otherwise the next iteration
Converged ==
  /\ At("simplify_exp", "check")
  /\ IF Top.exp = Top.old_exp
       THEN ReturnExp
       ELSE /\ stack' = SetTop([Top EXCEPT !.pc = "head"])
            /\ UNCHANGED <<ret, status, calls, step_logger>>
  /\ UNCHANGED <<the_rules, constant_folding, input, m_vars, r_vars, c_vars>>

\* simplify_parts(exp): [] for the empty list, else simplify_exp(car(exp))
PartsStart ==
  /\ At("simplify_parts", "start")
  /\ ret = Unset
  /\ IF null(Top.exp)
       THEN /\ stack' = Pop
            /\ ret' = L(<<>>)
            /\ UNCHANGED <<status, calls>>
       ELSE Call("car_wait", exp_frame(car(Top.exp), FALSE))
  /\ UNCHANGED <<the_rules, constant_folding, step_logger, input, m_vars,
                 r_vars, c_vars>>

\* simplify_exp(car(exp)) has returned: simplify_parts(cdr(exp))
PartsCar ==
  /\ At("simplify_parts", "car_wait")
  /\ ret # Unset
  /\ IF Len(stack) >= RecursionLimit
       THEN Raise(Err("RecursionError"))
       ELSE /\ stack' = Append(SetTop([Top EXCEPT !.first = ret,
                                                  !.pc = "cdr_wait"]),
                               parts_frame(cdr(Top.exp)))
            /\ ret' = Unset
            /\ UNCHANGED <<status, calls>>
  /\ UNCHANGED <<the_rules, constant_folding, step_logger, input, m_vars,
                 r_vars, c_vars>>

\* simplify_parts(cdr(exp)) has returned: return cons(first, rest)
PartsCdr ==
  /\ At("simplify_parts", "cdr_wait")
  /\ ret # Unset
  /\ stack' = Pop
  /\ ret' = cons(Top.first, ret)
  /\ UNCHANGED <<the_rules, constant_folding, step_logger, status, input,
                 calls, m_vars, r_vars, c_vars>>

Next ==
  \/ Wrapper
  \/ LoopHead
  \/ TryRulesApply
  \/ TryRulesRaise
  \/ TryRulesNone
  \/ RulesReturn
  \/ ConstantFold
  \/ NoConstantFold
  \/ CallSimplifyParts
  \/ PartsReturn
  \/ Converged
  \/ PartsStart
  \/ PartsCar
  \/ PartsCdr

Spec == Init /\ [][Next]_vars

\* ------------------------------------------------------------------------
\* the rewrite function of rewriter(rules, constant_folding=folding) without
\* step logger, as a function of its argument: depth counts the active
\* calls of simplify_exp and simplify_parts, this one included
\* ------------------------------------------------------------------------
RECURSIVE simplify_loop_of(_, _, _, _, _)
RECURSIVE simplify_rest_of(_, _, _, _, _)
RECURSIVE simplify_parts_of(_, _, _, _)

simplify_exp_of(rules, folding, exp, depth) ==
  simplify_loop_of(rules, folding, exp, depth, 0)

\* the loop from its head, iterations having been made: try_rules
simplify_loop_of(rules, folding, exp, depth, iterations) ==
  IF iterations >= max_iterations THEN exp
  ELSE LET found == scan(rules, 1, exp)
       IN IF found.rule = 0
            THEN simplify_rest_of(rules, folding, exp, depth, iterations + 1)
          ELSE IF IsErr(found.dict_) THEN found.dict_
          ELSE LET skel_inst ==
                     instantiate(skeleton(rules.l[found.rule]), found.dict_)
               IN IF IsErr(skel_inst) THEN skel_inst
                  ELSE IF depth >= RecursionLimit THEN Err("RecursionError")
                  ELSE LET result ==
                             simplify_exp_of(rules, folding, skel_inst, depth + 1)
                       IN IF IsErr(result) THEN result
                          ELSE IF result # exp
                            THEN simplify_loop_of(rules, folding, result, depth,
                                                  iterations + 1)
                            ELSE simplify_rest_of(rules, folding, exp, depth,
                                                  iterations + 1)

\* the rest of an iteration in which no rule changed exp: the fold, the
\* parts, the test for convergence
simplify_rest_of(rules, folding, exp, depth, iterations) ==
  LET folded == IF folding THEN try_constant_fold(exp).result ELSE exp
  IN IF folded # exp
       THEN simplify_loop_of(rules, folding, folded, depth, iterations)
     ELSE IF ~compound(exp) THEN exp
     ELSE IF depth >= RecursionLimit THEN Err("RecursionError")
     ELSE LET result == simplify_parts_of(rules, folding, exp, depth + 1)
          IN IF IsErr(result) THEN result
             ELSE IF result # exp
               THEN simplify_loop_of(rules, folding, result, depth, iterations)
               ELSE exp

simplify_parts_of(rules, folding, exp, depth) ==
  IF null(exp) THEN L(<<>>)
  ELSE IF depth >= RecursionLimit THEN Err("RecursionError")
  ELSE LET first == simplify_exp_of(rules, folding, car(exp), depth + 1)
       IN IF IsErr(first) THEN first
          ELSE LET rest == simplify_parts_of(rules, folding, cdr(exp), depth + 1)
               IN IF IsErr(rest) THEN rest ELSE cons(first, rest)

\* the rewrite function of the rewriter of the state
simplify_exp_fn(exp, depth) ==
  simplify_exp_of(the_rules, constant_folding, exp, depth)

simplify_loop_fn(exp, depth, iterations) ==
  simplify_loop_of(the_rules, constant_folding, exp, depth, iterations)

simplify_rest_fn(exp, depth, iterations) ==
  simplify_rest_of(the_rules, constant_folding, exp, depth, iterations)

simplify_parts_fn(exp, depth) ==
  simplify_parts_of(the_rules, constant_folding, exp, depth)

\* the calls made without step logger return what the function returns
DriverComputesRewrite ==
  step_logger = NoLogger =>
    \A c \in 1..Len(calls) : calls[c][2] = simplify_exp_fn(calls[c][1], 1)

\* ------------------------------------------------------------------------
\* the fluent interface: an Expression object is its expr, its _rules and
\* its _bindings
\* ------------------------------------------------------------------------
Expression(expr, rule_list) ==
  [expr |-> expr, rules |-> rule_list, bindings |-> L(<<>>)]

\* self._rules.extend(rules); return self
with_rules(self, rule_list) ==
  [self EXCEPT !.rules = L(self.rules.l \o rule_list.l)]

\* Python's None, and the truth value of a bindings value in a condition:
\* None and the empty list count as false
None == [none |-> TRUE]
truthy(v) == v # None /\ v # L(<<>>)

\* Expression.match_pattern(pattern): the bindings, or None for "failed"
match_pattern(self, pat) ==
  LET result == match(pat, self.expr, empty_dictionary)
  IN IF result # Failed THEN result ELSE None

\* Expression.transform(pattern, skeleton): the object returned, which is
\* the receiver itself (is_self) or a new Expression; or the exception
transform(self, pat, skel) ==
  LET bindings == match_pattern(self, pat)
      result == instantiate(skel, bindings)
  IN IF IsErr(bindings) THEN bindings
     ELSE IF truthy(bindings)
       THEN (IF IsErr(result) THEN result
             ELSE [is_self |-> FALSE, object |-> Expression(result, self.rules)])
     ELSE [is_self |-> TRUE, object |-> self]

\* the patterns and skeletons given to transform: with and without markers
TransformPatterns ==
  InstPatterns
  \cup {N(1), L(<<>>), L(<<S("f"), S("a")>>), L(<<S("f"), N(1)>>),
        Plus(AnyM("x"), AnyM("x"))}

TransformSkeletons ==
  {S("x"), N(1), SubM("x"), L(<<S("g"), SubM("x")>>), L(<<S("g"), S("a")>>),
   L(<<S("*"), N(2), SubM("x")>>)}

InitTransform ==
  /\ m_pat \in TransformPatterns
  /\ m_exp \in Expressions
  /\ m_skel \in TransformSkeletons
  /\ m_dict = Unset
  /\ m_inst = Unset
  /\ m_pc = "transform"
  /\ p_todo = <<>>
  /\ EvaluatorOff
  /\ DriverOff
  /\ ReplOff

\* Expression(m_exp).transform(m_pat, m_skel)
DoTransform ==
  /\ m_pc = "transform"
  /\ m_dict' = match_pattern(Expression(m_exp, L(<<>>)), m_pat)
  /\ m_inst' = transform(Expression(m_exp, L(<<>>)), m_pat, m_skel)
  /\ m_pc' = "transformed"
  /\ UNCHANGED <<m_pat, m_exp, m_skel, p_todo, e_vars, d_vars, r_vars>>

NextTransform == DoTransform

SpecTransform == InitTransform /\ [][NextTransform]_vars

\* the steps of the rewrite function once it is called
DriverSteps ==
  \/ LoopHead
  \/ TryRulesApply
  \/ TryRulesRaise
  \/ TryRulesNone
  \/ RulesReturn
  \/ ConstantFold
  \/ NoConstantFold
  \/ CallSimplifyParts
  \/ PartsReturn
  \/ Converged
  \/ PartsStart
  \/ PartsCar
  \/ PartsCdr

\* no rewriter has been created yet and none runs
DriverIdle ==
  /\ the_rules = L(<<>>)
  /\ constant_folding = FALSE
  /\ step_logger = NoLogger
  /\ stack = <<>>
  /\ ret = Unset
  /\ status = "idle"
  /\ input = Unset
  /\ calls = <<>>
  /\ max_steps = Unset
  /\ total_iterations = 0
  /\ steps_done = 0

\* rewrite_fn = rewriter(self._rules if self._rules else [],
\*                       constant_folding=folding); rewrite_fn(self.expr),
\* up to the loop of simplify_exp
start_rewrite(self, folding) ==
  /\ the_rules' = IF self.rules # L(<<>>) THEN self.rules ELSE L(<<>>)
  /\ constant_folding' = folding
  /\ step_logger' = NoLogger
  /\ input' = self.expr
  /\ stack' = <<exp_frame(self.expr, TRUE)>>
  /\ ret' = Unset
  /\ status' = "running"
  /\ total_iterations' = 0
  /\ steps_done' = 0
  /\ UNCHANGED calls

\* ------------------------------------------------------------------------
\* Expression.simplify as a call
\* ------------------------------------------------------------------------
\* the largest max_steps argument given
MaxStepLimit == 2

InitSimplify ==
  /\ DriverIdle
  /\ MatcherOff
  /\ ReplOff

\* Expression(e)._rules = rs; .simplify(max_steps=n, constant_folding=folding),
\* up to the loop of the rewrite function; n is not used by simplify
CallSimplify ==
  /\ status = "idle"
  /\ \E e \in Inputs, rs \in RuleSets, folding \in BOOLEAN,
        n \in {None} \cup {N(k) : k \in 0..MaxStepLimit} :
       /\ max_steps' = n
       /\ start_rewrite(Expression(e, rs), folding)
  /\ UNCHANGED <<m_vars, r_vars>>

NextSimplify == CallSimplify \/ DriverSteps

SpecSimplify == InitSimplify /\ [][NextSimplify]_vars

\* ------------------------------------------------------------------------
\* the REPL: expression entries, /rules add|load|delete|clear, /rewrite
\* ------------------------------------------------------------------------
\* how many expressions the history holds, how many rules are loaded
MaxHistory == 3
MaxRules == 2

\* (f ?x) -> (+ (: x) 0)
FToPlusZero == Rule(L(<<S("f"), AnyM("x")>>), Plus(SubM("x"), N(0)))

\* (?) -> x, a marker without name
NamelessMarker == Rule(L(<<S("?")>>), S("x"))

\* the rules given to /rules add, the rule files given to /rules load
ReplRulePool == {PlusZero, FToPlusZero, NamelessMarker}
RuleFiles == {L(<<PlusZero>>), L(<<FToPlusZero, PlusZero>>)}

\* the expressions entered
ReplEntries ==
  { L(<<S("f"), S("a")>>), Plus(S("a"), N(0)),
    L(<<S("f"), Plus(S("a"), N(0))>>), Plus(N(2), N(3)) }

\* the toggle of /constant-folding, which no command here changes
constant_folding_enabled == TRUE

InitRepl ==
  /\ history = <<>>
  /\ repl_rules = L(<<>>)
  /\ MatcherOff
  /\ DriverIdle

\* process_line with an expression: parse it, append it to the history
EnterExpression ==
  /\ status = "idle"
  /\ Len(history) < MaxHistory
  /\ \E e \in ReplEntries : history' = Append(history, Expression(e, L(<<>>)))
  /\ UNCHANGED <<repl_rules, m_vars, d_vars>>

\* /rules add <pattern> <skeleton>
RulesAdd ==
  /\ status = "idle"
  /\ Len(repl_rules.l) < MaxRules
  /\ \E rule \in ReplRulePool : repl_rules' = L(Append(repl_rules.l, rule))
  /\ UNCHANGED <<history, m_vars, d_vars>>

\* /rules load <file>: self.rules.extend(rule_pairs)
RulesLoad ==
  /\ status = "idle"
  /\ \E file \in RuleFiles :
       /\ Len(repl_rules.l) + Len(file.l) <= MaxRules
       /\ repl_rules' = L(repl_rules.l \o file.l)
  /\ UNCHANGED <<history, m_vars, d_vars>>

\* /rules delete <index>, the index counting from 0: del self.rules[index]
RulesDelete ==
  /\ status = "idle"
  /\ \E index \in 0..(Len(repl_rules.l) - 1) :
       repl_rules' = L(SubSeq(repl_rules.l, 1, index)
                       \o SubSeq(repl_rules.l, index + 2, Len(repl_rules.l)))
  /\ UNCHANGED <<history, m_vars, d_vars>>

\* /rules clear
RulesClear ==
  /\ status = "idle"
  /\ repl_rules' = L(<<>>)
  /\ UNCHANGED <<history, m_vars, d_vars>>

\* /rewrite: expr = self.history[-1]; expr.with_rules(self.rules), which
\* extends the _rules of the object in the history, then .simplify(...), up
\* to the loop of the rewrite function
RewriteLast ==
  /\ status = "idle"
  /\ history # <<>>
  /\ Len(history) < MaxHistory
  /\ Len(calls) < MaxCalls
  /\ LET expr == with_rules(history[Len(history)],
                            IF repl_rules = L(<<>>) THEN L(<<>>) ELSE repl_rules)
     IN /\ history' = [history EXCEPT ![Len(history)] = expr]
        /\ start_rewrite(expr, constant_folding_enabled)
  /\ UNCHANGED <<repl_rules, max_steps, m_vars>>

\* the rewrite function has returned: simplify builds the new Expression
\* with a copy of the _rules, rewrite_last appends it to the history
RewriteDone ==
  /\ status = "returned"
  /\ history # <<>>
  /\ history' = Append(history, Expression(ret, history[Len(history)].rules))
  /\ status' = "idle"
  /\ UNCHANGED <<the_rules, constant_folding, step_logger, stack, ret, input,
                 calls, c_vars, repl_rules, m_vars>>

\* the rewrite function has raised: the exception leaves rewrite_last
\* before the append and is reported by the loop of run
RewriteFailed ==
  /\ status = "raised"
  /\ history # <<>>
  /\ status' = "idle"
  /\ UNCHANGED <<the_rules, constant_folding, step_logger, stack, ret, input,
                 calls, c_vars, r_vars, m_vars>>

NextRepl ==
  \/ EnterExpression
  \/ RulesAdd
  \/ RulesLoad
  \/ RulesDelete
  \/ RulesClear
  \/ RewriteLast
  \/ RewriteDone
  \/ RewriteFailed
  \/ DriverSteps

SpecRepl == InitRepl /\ [][NextRepl]_vars

\* ------------------------------------------------------------------------
\* Expression.bind and Expression.evaluate: e_form is the expr of the
\* object, e_dict its _bindings, e_val the expr of the object returned
\* ------------------------------------------------------------------------
\* self._bindings.append([name, value]); return self
bind(self, name, value) ==
  [self EXCEPT !.bindings = L(Append(self.bindings.l, L(<<name, value>>)))]

\* Expression.evaluate(bindings): a new Expression of the evaluated expr;
\* the object's own bindings are used when the argument counts as false
Expression_evaluate(self, bindings) ==
  LET used == IF truthy(bindings) THEN bindings ELSE self.bindings
  IN [Expression(evaluate(self.expr, used), self.rules)
        EXCEPT !.bindings = used]

\* how many bindings an object is given
MaxBindings == 2

BindForms ==
  {S("x"), S("y"), Plus(S("x"), S("y")), Plus(S("x"), N(1)),
   L(<<S("f"), S("x"), S("x")>>)}

\* the bindings added: values for x and y, operations for +
BindEntries ==
  {<<name, value>> : name \in {S("x"), S("y")},
                     value \in {N(3), N(4), S("a")}}
  \cup {<<S("+"), op>> : op \in {Op("+"), Op("*")}}

\* the Expression the state describes
BoundExpression == [Expression(e_form, L(<<>>)) EXCEPT !.bindings = e_dict]

InitBind ==
  /\ e_form \in BindForms
  /\ e_dict = L(<<>>)
  /\ e_val = Unset
  /\ m_pat = Unset
  /\ m_exp = Unset
  /\ m_dict = Unset
  /\ m_skel = Unset
  /\ m_inst = Unset
  /\ m_pc = "bind"
  /\ p_todo = <<>>
  /\ DriverOff
  /\ ReplOff

\* self.bind(name, value)
Bind ==
  /\ m_pc = "bind"
  /\ Len(e_dict.l) < MaxBindings
  /\ \E entry \in BindEntries :
       e_dict' = bind(BoundExpression, entry[1], entry[2]).bindings
  /\ UNCHANGED <<e_form, e_val, m_pat, m_exp, m_dict, m_skel, m_inst, m_pc,
                 p_todo, d_vars, r_vars>>

\* self.evaluate(), self.evaluate(None), self.evaluate([])
EvaluateBound ==
  /\ m_pc = "bind"
  /\ \E bindings \in {None, L(<<>>)} :
       e_val' = Expression_evaluate(BoundExpression, bindings).expr
  /\ m_pc' = "evaluated"
  /\ UNCHANGED <<e_form, e_dict, m_pat, m_exp, m_dict, m_skel, m_inst, p_todo,
                 d_vars, r_vars>>

NextBind == Bind \/ EvaluateBound

SpecBind == InitBind /\ [][NextBind]_vars

\* ------------------------------------------------------------------------
\* properties of the matcher
\* ------------------------------------------------------------------------
Succeeded(d) == compound(d)

\* pat with its j-th element replaced by a marker of a name pat does not use
RenameAt(pat, j) == L([pat.l EXCEPT ![j] = AnyM("fresh")])

\* C3: a pattern with the same any-variable at two (top-level) positions
\* i < j, against an expression that has elements at those positions and
\* matches the pattern once the second occurrence is renamed apart: the
\* match succeeds iff the two sub-expressions are equal, and fails otherwise.
C3_RepeatedVariableEquality ==
  (m_pc = "matched" /\ compound(m_pat) /\ compound(m_exp)
     /\ Len(m_exp.l) = Len(m_pat.l)) =>
    \A i, j \in 1..Len(m_pat.l) :
      (/\ i < j
       /\ m_pat.l[i] = AnyM("x")
       /\ m_pat.l[j] = AnyM("x")
       /\ Succeeded(match(RenameAt(m_pat, j), m_exp, empty_dictionary)))
      => IF m_exp.l[i] = m_exp.l[j]
           THEN Succeeded(m_dict)
           ELSE m_dict = Failed

\* every two-element marker of the pattern names a symbol
RECURSIVE NamesAreSymbols(_)
NamesAreSymbols(pat) ==
  IF is_marker(pat) THEN variable(pat.l[2])
  ELSE IF compound(pat)
    THEN \A i \in 1..Len(pat.l) : NamesAreSymbols(pat.l[i])
    ELSE TRUE

\* C4: round trip: when match(P, E, {}) returns bindings B and S is P with
\* its markers rewritten to sub forms, instantiate(S, B) is E.
C4_RoundTrip ==
  (m_pc = "instantiated" /\ m_skel = to_skeleton(m_pat)
     /\ NamesAreSymbols(m_pat)) => m_inst = m_exp

\* C6: a compound pattern that is not a two-element marker matches only a
\* compound of the same length, element by element; against a compound of
\* any other length the result is Failure.
C6_SameLength ==
  (m_pc = "matched" /\ compound(m_pat) /\ ~is_marker(m_pat)) =>
    /\ Succeeded(m_dict) =>
         /\ compound(m_exp)
         /\ Len(m_exp.l) = Len(m_pat.l)
         /\ \A i \in 1..Len(m_pat.l) :
              Succeeded(match(m_pat.l[i], m_exp.l[i], empty_dictionary))
    /\ (compound(m_exp) /\ Len(m_exp.l) # Len(m_pat.l)) => ~Succeeded(m_dict)

\* C7: a compound headed by a marker symbol whose length is not two is not a
\* marker: it matches only structurally (a compound of the same length with
\* the same literal head) and the expression is not bound to a name.
C7_MarkerNeedsTwoElements ==
  (m_pc = "matched" /\ compound(m_pat) /\ Len(m_pat.l) # 2
     /\ Len(m_pat.l) >= 1 /\ m_pat.l[1] \in MarkerSymbols
     /\ Succeeded(m_dict)) =>
    /\ compound(m_exp)
    /\ Len(m_exp.l) = Len(m_pat.l)
    /\ m_exp.l[1] = m_pat.l[1]
    /\ \A k \in 1..Len(m_dict.l) : m_dict.l[k].l[2] # m_exp

\* C8: const(name) matches exactly the constants and var(name) exactly the
\* symbols, returning the single binding name -> E; everything else fails.
C8_KindRestrictedMarkers ==
  (m_pc = "matched" /\ compound(m_pat) /\ Len(m_pat.l) = 2
     /\ m_pat.l[1] \in {S("?c"), S("?v")} /\ variable(m_pat.l[2])) =>
    IF \/ (m_pat.l[1] = S("?c") /\ DOMAIN m_exp \in {{"n"}, {"q"}})
       \/ (m_pat.l[1] = S("?v") /\ DOMAIN m_exp = {"s"})
      THEN m_dict = L(<< L(<<m_pat.l[2], m_exp>>) >>)
      ELSE m_dict = Failed

C8_Witness ==
  /\ m_pc = "matched"
  /\ m_pat = CstM("x")
  /\ m_exp = N(1)
  /\ m_dict = L(<< L(<<S("x"), N(1)>>) >>)

\* C10: match returns a bindings value or Failure; it never raises.
C10_MatchNeverRaises ==
  m_pc = "matched" => ~IsErr(m_dict)

UniqueNames(d) ==
  \A i, j \in 1..Len(d.l) : d.l[i].l[1] = d.l[j].l[1] => i = j

\* the call of match that is next in the pass extends the bindings with a
\* name that is already bound
RebindsBoundName ==
  /\ m_pc = "pass" /\ p_todo # <<>> /\ compound(m_dict)
  /\ LET pat == p_todo[1][1]
         exp == p_todo[1][2]
     IN /\ \/ (arbitrary_constant(pat) /\ constant(exp))
           \/ (arbitrary_variable(pat) /\ variable(exp))
           \/ (arbitrary_expression(pat) /\ ~callable(exp))
        /\ ~IsErr(variable_name(pat))
        /\ entries_of(variable_name(pat), m_dict) # {}

\* C9: every bindings value of a matching pass started from empty bindings
\* has at most one entry per name, and extending with a bound name yields the
\* same bindings (equal value) or Failure (different value).
C9_BindingUniqueness ==
  /\ [](Succeeded(m_dict) => UniqueNames(m_dict))
  /\ [][RebindsBoundName =>
          IF lookup(variable_name(p_todo[1][1]), m_dict) = p_todo[1][2]
            THEN m_dict' = m_dict
            ELSE m_dict' = Failed]_vars

C9_Witness ==
  /\ m_pc = "pass"
  /\ m_pat = L(<<AnyM("x"), AnyM("y"), AnyM("x")>>)
  /\ m_exp = L(<<S("a"), N(1), S("a")>>)
  /\ p_todo = <<>>
  /\ m_dict = L(<< L(<<S("x"), S("a")>>), L(<<S("y"), N(1)>>) >>)

\* ------------------------------------------------------------------------
\* properties of the instantiator
\* ------------------------------------------------------------------------
\* C11: instantiate is total: for every skeleton (compounds with the
\* substitution symbol at a non-head position included) and every bindings
\* value returned by match, it returns an expression and never raises.
C11_InstantiateTotal ==
  m_pc = "instantiated" => ~IsErr(m_inst)

\* no sub form (a two-element compound headed by the substitution symbol)
\* occurs in the skeleton
RECURSIVE NoSubForm(_)
NoSubForm(sk) ==
  IF ~compound(sk) THEN TRUE
  ELSE /\ ~(Len(sk.l) = 2 /\ sk.l[1] = S(":"))
       /\ \A i \in 1..Len(sk.l) : NoSubForm(sk.l[i])

\* C12: a skeleton without sub form is returned as it is, whatever the
\* bindings bind: literal atoms are never substituted (stated of the calls
\* that return; C11 is about the calls that raise).
C12_LiteralAtomsKept ==
  (m_pc = "instantiated" /\ NoSubForm(m_skel) /\ ~IsErr(m_inst)) =>
    m_inst = m_skel

\* ------------------------------------------------------------------------
\* properties of the evaluator
\* ------------------------------------------------------------------------
\* the values the bindings d bind to name
BoundValues(name, d) ==
  {d.l[i].l[2] : i \in {j \in 1..Len(d.l) : d.l[j].l[1] = name}}

\* the form is a compound whose head symbol, as written, is bound to an
\* operation
HeadBoundToOperation(form, d) ==
  /\ compound(form) /\ form.l # <<>>
  /\ variable(form.l[1])
  /\ \E v \in BoundValues(form.l[1], d) : callable(v)

TheOperation(form, d) ==
  CHOOSE v \in BoundValues(form.l[1], d) : callable(v)

\* the operands of the form, each evaluated under d
OperandValues(form, d) ==
  [i \in 1..(Len(form.l) - 1) |-> evaluate(form.l[i + 1], d)]

\* C13: when the head symbol of a compound, as written, is bound to an
\* operation, evaluate returns the result of that operation applied to the
\* operands, each evaluated under the same bindings.
C13_AppliesBoundOperation ==
  (m_pc = "evaluated" /\ HeadBoundToOperation(e_form, e_dict)) =>
    LET result == apply_op(TheOperation(e_form, e_dict),
                           OperandValues(e_form, e_dict))
    IN ~IsErr(result) => e_val = result

\* the test of test_evaluate_expression_with_variables
C13_Witness ==
  /\ m_pc = "evaluated"
  /\ e_form = L(<<S("*"), S("x"), L(<<S("+"), S("y"), N(2)>>)>>)
  /\ BoundValues(S("x"), e_dict) = {N(3)}
  /\ BoundValues(S("y"), e_dict) = {N(4)}
  /\ e_val = N(18)

\* C14: when the head of a compound does not resolve to an operation,
\* evaluate returns the compound of the evaluated head followed by the
\* evaluated operands, in order.
C14_ResidualHasEvaluatedHead ==
  (/\ m_pc = "evaluated"
   /\ compound(e_form) /\ e_form.l # <<>>
   /\ \A v \in BoundValues(e_form.l[1], e_dict) : ~callable(v)
   /\ ~callable(e_form.l[1])) =>
    e_val = L(<<evaluate(e_form.l[1], e_dict)>>
              \o OperandValues(e_form, e_dict))

\* C15: evaluate never raises; when the operation bound to the head fails
\* on the evaluated operands, evaluate returns the compound of the head and
\* the evaluated operands.
C15_OperationFailureIsResidual ==
  m_pc = "evaluated" =>
    /\ ~IsErr(e_val)
    /\ (/\ HeadBoundToOperation(e_form, e_dict)
        /\ IsErr(apply_op(TheOperation(e_form, e_dict),
                          OperandValues(e_form, e_dict)))) =>
         e_val = L(<<e_form.l[1]>> \o OperandValues(e_form, e_dict))

\* addition applied to an unresolved symbol and a number
C15_Witness ==
  /\ m_pc = "evaluated"
  /\ e_form = L(<<S("+"), S("z"), N(2)>>)
  /\ HeadBoundToOperation(e_form, e_dict)
  /\ e_val = e_form

\* C16: evaluate of a symbol returns the value bound to it, and the symbol
\* itself when it is not bound; evaluate of a constant returns the constant.
C16_AtomEvaluation ==
  m_pc = "evaluated" =>
    /\ variable(e_form) =>
         IF BoundValues(e_form, e_dict) # {}
           THEN e_val \in BoundValues(e_form, e_dict)
           ELSE e_val = e_form
    /\ constant(e_form) => e_val = e_form

C16_Witness ==
  /\ m_pc = "evaluated"
  /\ e_form = S("x")
  /\ e_val = N(3)

\* ------------------------------------------------------------------------
\* properties of the driver
\* ------------------------------------------------------------------------
MatchesSomeRule(exp) ==
  \E i \in 1..Len(the_rules.l) :
    Succeeded(match(pattern(the_rules.l[i]), exp, empty_dictionary))

\* C1: with the cyclic rule set and an input that one of its patterns
\* matches, the rewrite function terminates by returning an expression: it
\* never ends in an error, and no invocation of the driver iterates or
\* nests beyond the iteration cap.
C1_CyclicRulesTerminate ==
  (the_rules = CyclicRules /\ input # Unset /\ MatchesSomeRule(input)) =>
    /\ status # "raised"
    /\ Len(stack) <= max_iterations
    /\ \A k \in 1..Len(stack) : stack[k].iterations <= max_iterations

\* C2: a node whose rule scan has applied rule i: the pattern of rule i
\* matches the node, no earlier rule's pattern does, and the expression
\* handed on is the instance of the skeleton of rule i.
C2_FirstMatchingRule ==
  \A k \in 1..Len(stack) :
    (stack[k].fn = "simplify_exp" /\ stack[k].pc = "rules_wait") =>
      LET i == stack[k].rule
          node == stack[k].exp
          dict_ == match(pattern(the_rules.l[i]), node, empty_dictionary)
      IN /\ i \in 1..Len(the_rules.l)
         /\ Succeeded(dict_)
         /\ \A j \in 1..(i - 1) :
              match(pattern(the_rules.l[j]), node, empty_dictionary) = Failed
         /\ (k < Len(stack) /\ stack[k + 1].iterations = 0) =>
              stack[k + 1].exp = instantiate(skeleton(the_rules.l[i]), dict_)

\* a later rule matches the node as well, and the first one is applied
C2_Witness ==
  \E k \in 1..Len(stack) :
    /\ stack[k].fn = "simplify_exp"
    /\ stack[k].pc = "rules_wait"
    /\ stack[k].rule = 1
    /\ Len(the_rules.l) = 2
    /\ Succeeded(match(pattern(the_rules.l[2]), stack[k].exp, empty_dictionary))
    /\ k < Len(stack)
    /\ stack[k + 1].iterations = 0

\* an expression of integer constants under binary +, -, * and unary -
RECURSIVE IsArith(_)
IsArith(e) ==
  IF DOMAIN e = {"n"} THEN TRUE
  ELSE /\ compound(e)
       /\ \/ /\ Len(e.l) = 3
             /\ e.l[1] \in {S("+"), S("-"), S("*")}
             /\ IsArith(e.l[2]) /\ IsArith(e.l[3])
          \/ /\ Len(e.l) = 2
             /\ e.l[1] = S("-")
             /\ IsArith(e.l[2])

\* its arithmetic value
RECURSIVE ArithValue(_)
ArithValue(e) ==
  IF DOMAIN e = {"n"} THEN e.n
  ELSE IF Len(e.l) = 2 THEN 0 - ArithValue(e.l[2])
  ELSE IF e.l[1] = S("+") THEN ArithValue(e.l[2]) + ArithValue(e.l[3])
  ELSE IF e.l[1] = S("-") THEN ArithValue(e.l[2]) - ArithValue(e.l[3])
  ELSE ArithValue(e.l[2]) * ArithValue(e.l[3])

C5_Idempotence ==
  \A c \in 2..Len(calls) :
    (~IsErr(calls[c - 1][2]) /\ calls[c][1] = calls[c - 1][2]) =>
      calls[c][2] = calls[c - 1][2]

\* two calls have returned, the first of which rewrote its input
C5_Witness ==
  /\ Len(calls) = 2
  /\ calls[2][1] = calls[1][2]
  /\ calls[1][1] # calls[1][2]
  /\ the_rules # NoRules
  /\ status = "returned"

\* the positions of the notifications of a type among the logged steps
StepsOfType(type) ==
  {i \in 1..Len(step_logger.steps) : step_logger.steps[i].type = type}

\* the calls of the rewrite function that have returned
Returned == {c \in 1..Len(calls) : ~IsErr(calls[c][2])}

\* C18: with an observer, every top-level call that returns has notified
\* exactly one initial state, with its input, before its other
\* notifications and exactly one final state, with the expression it
\* returns, after them; the recursive invocations notify neither.
C18_OneInitialOneFinal ==
  step_logger # NoLogger =>
    LET st == step_logger.steps
    IN /\ Cardinality(StepsOfType("final")) = Cardinality(Returned)
       /\ Cardinality(StepsOfType("initial")) <=
            Len(calls) + (IF status = "running" THEN 1 ELSE 0)
       /\ \A c \in Returned :
            \E i, f \in 1..Len(st) :
              /\ i < f
              /\ st[i].type = "initial" /\ st[i].expression = calls[c][1]
              /\ st[f].type = "final" /\ st[f].expression = calls[c][2]
              /\ Cardinality({j \in StepsOfType("initial") : j <= i}) = c
              /\ Cardinality({j \in StepsOfType("final") : j <= f}) = c
              /\ i = 1 \/ st[i - 1].type = "final"
              /\ f = Len(st) \/ st[f + 1].type = "initial"
              /\ \A j \in (i + 1)..(f - 1) : st[j].type = "rewrite"

\* a call that rewrote in a recursive invocation has returned
C18_Witness ==
  /\ step_logger # NoLogger
  /\ status = "returned"
  /\ Len(calls) = 1
  /\ Len(step_logger.steps) >= 4
  /\ step_logger.steps[1].type = "initial"
  /\ step_logger.steps[2].type = "rewrite"
  /\ step_logger.steps[3].type = "rewrite"
  /\ step_logger.steps[Len(step_logger.steps)].type = "final"

\* C19: the observer can neither abort nor alter a rewrite: a call made
\* with an observer ends as the call without observer does, with the same
\* expression, also when a notification of the observer raises.
C19_ObserverIsolation ==
  (step_logger # NoLogger /\ status \in {"returned", "raised"}) =>
    calls[Len(calls)][2] = simplify_exp_fn(calls[Len(calls)][1], 1)

\* the rule scan on exp reaches a rule without skeleton: a one-element
\* rule none of whose predecessors matches exp
ScanReachesMalformed(exp) ==
  \E k \in 1..Len(the_rules.l) :
    /\ Len(the_rules.l[k].l) = 1
    /\ \A j \in 1..(k - 1) :
         /\ Len(the_rules.l[j].l) = 2
         /\ match(the_rules.l[j].l[1], exp, empty_dictionary) = Failed

\* C20: the rule scan that reaches a one-element rule raises an error: the
\* rule is not skipped and the rewrite returns no result.
C20_MalformedRuleRaises ==
  [][(At("simplify_exp", "try_rules") /\ ScanReachesMalformed(Top.exp)) =>
       (status' = "raised" /\ ret' = Err("ValueError") /\ stack' = <<>>)]_vars

\* the scan has passed a rule that does not match and raised at the
\* one-element rule after it
C20_Witness ==
  /\ status = "raised"
  /\ ret = Err("ValueError")
  /\ Len(the_rules.l) = 2
  /\ Len(the_rules.l[2].l) = 1
  /\ calls # <<>>

\* ------------------------------------------------------------------------
\* properties of the REPL
\* ------------------------------------------------------------------------
\* C21: /rewrite rewrites the last expression of the history with exactly
\* the rules loaded at that moment, in their order: its call of the rewrite
\* function ends as the rewrite function of the loaded rules ends on that
\* expression, with the same expression or error; rules removed since an
\* earlier /rewrite play no part.
C21_RewriteUsesLoadedRules ==
  (history # <<>> /\ status \in {"returned", "raised"}) =>
    calls[Len(calls)][2] =
      simplify_exp_of(repl_rules, constant_folding_enabled,
                      calls[Len(calls)][1], 1)

\* ------------------------------------------------------------------------
\* properties of the fluent interface
\* ------------------------------------------------------------------------
\* C22: transform returns a new Expression holding instantiate(skeleton,
\* bindings) whenever the match succeeds, with empty bindings as well, and
\* the receiver itself only when the match fails.
C22_TransformOnEveryMatch ==
  m_pc = "transformed" =>
    LET bindings == match(m_pat, m_exp, empty_dictionary)
    IN /\ Succeeded(bindings) =>
            /\ ~m_inst.is_self
            /\ m_inst.object.expr = instantiate(m_skel, bindings)
       /\ bindings = Failed => m_inst.is_self

\* C23: simplify(max_steps=n) performs at most n simplification steps (rule
\* applications plus constant folds) before it returns.
C23_MaxStepsBoundsSteps ==
  (status = "returned" /\ constant(max_steps)) => steps_done <= max_steps.n

\* ------------------------------------------------------------------------
\* properties of the step logger
\* ------------------------------------------------------------------------
\* C24: after any sequence of log_initial, log_rewrite, log_simplification,
\* log_final and clear, step_count is the number of recorded steps and the
\* i-th recorded step (counted from 0) carries 'step' = i; clear leaves no
\* step and a count of zero, so that the numbering starts again at 0.
C24_StepNumbering ==
  /\ [](/\ step_logger.step_count = Len(step_logger.steps)
        /\ \A i \in 1..Len(step_logger.steps) :
             step_logger.steps[i].step = i - 1)
  /\ [][step_logger'.session_id # step_logger.session_id =>
          (step_logger'.steps = <<>> /\ step_logger'.step_count = 0)]_vars

\* steps of three kinds logged after a clear
C24_Witness ==
  /\ step_logger.session_id = 1
  /\ Len(step_logger.steps) = 3
  /\ step_logger.steps[1].type = "initial"
  /\ step_logger.steps[2].type = "simplification"
  /\ step_logger.steps[3].type = "final"
  /\ step_logger.steps[1].step = 0
  /\ step_logger.step_count = 3

\* ------------------------------------------------------------------------
\* the order of the driver
\* ------------------------------------------------------------------------
\* the index of the last initial notification (0 without one)
LastInitial ==
  LET idx == {i \in 1..Len(step_logger.steps) :
                step_logger.steps[i].type = "initial"}
  IN IF idx = {} THEN 0 ELSE CHOOSE i \in idx : \A j \in idx : j <= i

\* C25: the driver is outermost-first. While the parts of a node are being
\* simplified, the node is as it was at the start of the iteration, no rule
\* matches it and the fold leaves it as it is. Hence, when a rule matches
\* the whole input: as long as no rewrite has been performed the driver is
\* at the root, before its fold and its parts, and the first notification
\* after the initial one is the rewrite of the whole input by the first
\* matching rule.
C25_OutermostFirst ==
  /\ \A k \in 1..Len(stack) :
       (stack[k].fn = "simplify_exp" /\ stack[k].pc = "parts_wait") =>
         /\ stack[k].exp = stack[k].old_exp
         /\ scan(the_rules, 1, stack[k].exp) = NoRule
         /\ constant_folding =>
              fold_with_logger(stack[k].exp, step_logger).result = stack[k].exp
  /\ (status = "running" /\ MatchesSomeRule(input) /\ steps_done = 0) =>
       /\ Len(stack) = 1
       /\ Top.pc \in {"head", "try_rules"}
  /\ (/\ status \in {"running", "returned", "raised"}
      /\ MatchesSomeRule(input)
      /\ step_logger # NoLogger
      /\ LastInitial # 0
      /\ Len(step_logger.steps) > LastInitial) =>
       LET first == step_logger.steps[LastInitial + 1]
           found == scan(the_rules, 1, input)
       IN /\ first.type = "rewrite"
          /\ first.before = input
          /\ first.pattern = pattern(the_rules.l[found.rule])
          /\ first.after = instantiate(skeleton(the_rules.l[found.rule]),
                                       found.dict_)

\* a rule matches the input and its first operand: the whole input is
\* rewritten first, the operand while the parts are simplified
C25_Witness ==
  /\ the_rules = GeneralFirst
  /\ input = Plus(Plus(S("x"), N(0)), N(0))
  /\ Len(calls) = 0
  /\ step_logger # NoLogger
  /\ Len(step_logger.steps) = 3
  /\ step_logger.steps[2].before = input
  /\ step_logger.steps[3].before = Plus(S("x"), N(0))
  /\ \E k \in 1..Len(stack) :
       stack[k].fn = "simplify_exp" /\ stack[k].pc = "parts_wait"

\* a notification of a constant fold
IsFoldStep(step) ==
  /\ step.type = "rewrite"
  /\ DOMAIN step.pattern = {"fold"}

\* C26: a fold notification is emitted only for a fold that produced a
\* value: every fold notification the observer has received carries a
\* constant as its result, other than the node it was computed from.
C26_FoldNotifiedOnlyOnSuccess ==
  step_logger # NoLogger =>
    \A i \in 1..Len(step_logger.steps) :
      IsFoldStep(step_logger.steps[i]) =>
        /\ constant(step_logger.steps[i].after)
        /\ step_logger.steps[i].after # step_logger.steps[i].before

\* C27: the iteration count of the final notification is the number of
\* loop iterations of all driver invocations of the call, nested ones
\* included.
C27_FinalCarriesTotalIterations ==
  (/\ status = "returned"
   /\ step_logger # NoLogger
   /\ step_logger.steps # <<>>) =>
    LET final == step_logger.steps[Len(step_logger.steps)]
    IN /\ final.type = "final"
       /\ final.iterations = total_iterations

\* an expression and the elements at any depth inside it
RECURSIVE Elements(_)
Elements(e) ==
  {e} \cup (IF compound(e)
              THEN UNION {Elements(e.l[i]) : i \in 1..Len(e.l)}
              ELSE {})

\* the fold catalogue yields a value for e
FoldApplies(e) == try_constant_fold(e).result # e

\* C28: when the rewrite function returns, no rule's pattern matches the
\* returned expression or an element at any depth inside it, heads
\* included, and with folding enabled the fold catalogue applies to none
\* of them.
C28_ResultIrreducible ==
  status = "returned" =>
    \A e \in Elements(calls[Len(calls)][2]) :
      /\ ~MatchesSomeRule(e)
      /\ constant_folding => ~FoldApplies(e)

FirstBindings(d) ==
  LET keep == {i \in 1..Len(d.l) :
                 \A j \in 1..(i - 1) : d.l[j].l[1] # d.l[i].l[1]}
      RECURSIVE upto(_)
      upto(i) == IF i = 0 THEN <<>>
                 ELSE IF i \in keep THEN Append(upto(i - 1), d.l[i])
                 ELSE upto(i - 1)
  IN L(upto(Len(d.l)))

\* C30: the first binding wins. After the binds made on an Expression,
\* evaluate resolves a bound name to the value of the first bind of that
\* name; a later bind of the name changes nothing: the result is that of
\* the evaluation with the first bind of every name alone.
C30_FirstBindingWins ==
  m_pc = "evaluated" =>
    /\ e_val = evaluate(e_form, FirstBindings(e_dict))
    /\ (variable(e_form) /\ entries_of(e_form, e_dict) # {}) =>
         e_val = e_dict.l[first_of(entries_of(e_form, e_dict))].l[2]

\* bind("x", 3), bind("x", 4), evaluate on the expression x gives 3
C30_Witness ==
  /\ m_pc = "evaluated"
  /\ e_form = S("x")
  /\ e_dict = L(<<L(<<S("x"), N(3)>>), L(<<S("x"), N(4)>>)>>)
  /\ e_val = N(3)

====
